---- MODULE Spec2Model ----
(***************************************************************************)
(* Model of the code-automation VS Code extension:                         *)
(*   src/src/extension.ts    commands analyzeCodebase / generateSummary    *)
(*   src/src/CodeChatView.ts the chat view provider and its webview script *)
(* Text is a sequence of tokens (a token is a character or a fixed phrase),*)
(* so that concatenation, trimming and containment are computed.          *)
(***************************************************************************)
EXTENDS Integers, Sequences, FiniteSets, TLC

\* ------------------------------------------------------------------ bounds
MaxReq == 2
MaxViewReq == 1
MaxRuns == 1
MaxOutLen == 2

\* ------------------------------------------------------------ text helpers
T(s) == <<s>>

IsWs(c) == c = " "

RECURSIVE TrimLeft(_)
TrimLeft(s) ==
  IF s # <<>> /\ IsWs(Head(s)) THEN TrimLeft(Tail(s)) ELSE s

RECURSIVE TrimRight(_)
TrimRight(s) ==
  IF s # <<>> /\ IsWs(s[Len(s)]) THEN TrimRight(SubSeq(s, 1, Len(s) - 1)) ELSE s

\* String.prototype.trim
Trim(s) == TrimRight(TrimLeft(s))

\* String.prototype.includes
Contains(s, t) ==
  \E i \in 0..(Len(s) - Len(t)) : SubSeq(s, i + 1, i + Len(t)) = t

RECURSIVE SeqsUpTo(_, _)
SeqsUpTo(A, n) ==
  IF n = 0 THEN {<<>>}
  ELSE LET P == SeqsUpTo(A, n - 1)
       IN P \cup {Append(p, a) : p \in {q \in P : Len(q) = n - 1}, a \in A}

\* ------------------------------------------------------------- JSON.parse
\* Recogniser for the JSON grammar over the characters the analyzer output
\* is drawn from: numbers (digit runs), arrays, insignificant whitespace.
RECURSIVE SkipWs(_, _)
SkipWs(s, i) == IF i <= Len(s) /\ IsWs(s[i]) THEN SkipWs(s, i + 1) ELSE i

RECURSIVE SkipDigits(_, _)
SkipDigits(s, i) == IF i <= Len(s) /\ s[i] = "1" THEN SkipDigits(s, i + 1) ELSE i

\* position after the value that starts at i, or 0 when none parses there
RECURSIVE ParseValue(_, _)
ParseValue(s, i) ==
  IF i > Len(s) THEN 0
  ELSE IF s[i] = "1" THEN SkipDigits(s, i)
  ELSE IF s[i] = "[" THEN
    LET j == SkipWs(s, i + 1)
    IN IF j <= Len(s) /\ s[j] = "]" THEN j + 1
       ELSE LET k == ParseValue(s, j)
            IN IF k = 0 THEN 0
               ELSE LET m == SkipWs(s, k)
                    IN IF m <= Len(s) /\ s[m] = "]" THEN m + 1 ELSE 0
  ELSE 0

\* TRUE iff JSON.parse(s) returns, FALSE iff it throws SyntaxError
JsonParses(s) ==
  LET k == ParseValue(s, SkipWs(s, 1))
  IN k # 0 /\ SkipWs(s, k) = Len(s) + 1

\* ------------------------------------------------------- program constants
UnknownErrorMsg == T("Unknown error occurred.")
InvalidJsonMsg == T("Invalid JSON output from analyzer.py")
AnalyzeErrorPrefix == T("Error analyzing codebase: ")
AnalyzeSuccessMsg == T("Codebase analyzed successfully!")
NoFolderMsg == T("No workspace folder is open. Please open a folder to analyze.")
SummaryErrorPrefix == T("Error generating summary: ")
NoMatchesMsg == T("No relevant code found for your query.")
CodeEmbeddingsIndex == T("code-embeddings")
AnalyzingStatus == T("Analyzing codebase...")
SummaryStatus == T("Generating summary...")
QueryStatus == T("Generating response...")
NoSummaryMsg == T("No summary generated. Make sure to analyze the codebase first.")
NoResponseMsg == T("No response generated. Make sure to analyze the codebase first.")
SummarizeUserText == T("Summarize the codebase")

\* ------------------------------------------------- inputs of the environment
\* vscode.workspace.workspaceFolders: undefined, empty, or one open folder
WorkspaceChoices ==
  { [defined |-> FALSE, folders |-> <<>>],
    [defined |-> TRUE, folders |-> <<>>],
    [defined |-> TRUE, folders |-> <<T("/w1")>>] }

\* what the analyzer subprocess writes
Stdouts == SeqsUpTo({" ", "[", "]", "1"}, MaxOutLen)
Stderrs == { <<>>, T("Traceback"), InvalidJsonMsg }

\* the subprocess outcomes the whole-extension specification runs with
ExecOutcomes ==
  { [error |-> FALSE, stdout |-> <<"[", "]">>, stderr |-> <<>>],
    [error |-> FALSE, stdout |-> <<"[">>, stderr |-> <<>>],
    [error |-> TRUE, stdout |-> <<>>, stderr |-> T("Traceback")],
    [error |-> TRUE, stdout |-> <<>>, stderr |-> <<>>] }

\* what showInputBox resolves with / what the user types in #queryInput
Undefined == [defined |-> FALSE, text |-> <<>>]
Str(t) == [defined |-> TRUE, text |-> t]
InputBoxValues == { Undefined, Str(<<>>), Str(<<"q">>) }
QueryInputValues == { <<>>, <<" ">>, <<"q", " ">> }

\* HTTP outcomes of the embedding and chat-completion endpoints
EmbeddingResponses ==
  { [kind |-> "ok", message |-> <<>>, embedding |-> T("v1")],
    [kind |-> "error", message |-> T("X"), embedding |-> <<>>],
    [kind |-> "transport", message |-> T("fetch failed"), embedding |-> <<>>] }

ChatResponses ==
  { [kind |-> "ok", message |-> <<>>, content |-> <<" ", "S", " ">>],
    [kind |-> "error", message |-> T("X"), content |-> <<>>] }

M1 == [file_path |-> "a.py", type |-> "function", name |-> "foo", content |-> "def foo(): pass"]
M2 == [file_path |-> "b.ts", type |-> "class", name |-> "Bar", content |-> "class Bar {}"]

\* outcomes of index.query: a response with or without matches, or a throw
SearchResponses ==
  { [kind |-> "ok", hasMatches |-> FALSE, matches |-> <<>>, message |-> <<>>],
    [kind |-> "ok", hasMatches |-> TRUE, matches |-> <<>>, message |-> <<>>],
    [kind |-> "ok", hasMatches |-> TRUE, matches |-> <<M1, M2>>, message |-> <<>>],
    [kind |-> "throw", hasMatches |-> FALSE, matches |-> <<>>, message |-> T("index not found")] }

\* outcomes of executeCommand('extension.askCodebase', query): the command is
\* registered nowhere in the source files at hand
AskOutcomes ==
  { [kind |-> "rejected", value |-> Undefined,
     message |-> T("command 'extension.askCodebase' not found")],
    [kind |-> "resolved", value |-> Undefined, message |-> <<>>],
    [kind |-> "resolved", value |-> Str(T("answer")), message |-> <<>>] }

\* ------------------------------------------------------------------- state
VARIABLES
  workspaceFolders,  \* vscode.workspace.workspaceFolders
  req,               \* the requests issued so far, by request number
  toHost,            \* messages posted by the webview, not yet received
  toView,            \* per request: messages posted to the webview, not yet rendered
  dom                \* per request: its children of #messages, in order

vars == <<workspaceFolders, req, toHost, toView, dom>>

NoError == [thrown |-> FALSE, message |-> <<>>]
Err(m) == [thrown |-> TRUE, message |-> m]

NewReq(origin, kind, q) ==
  [ origin |-> origin, kind |-> kind, query |-> q,
    vpc |-> IF origin = "view" THEN "queued" ELSE "none",
    cpc |-> "none", outcome |-> "none", err |-> NoError, failedAt |-> "none",
    execCalls |-> 0, embedCalls |-> 0, searchCalls |-> 0, chatCalls |-> 0,
    settles |-> 0, progressResolves |-> 0,
    execError |-> FALSE, stdout |-> <<>>, stderr |-> <<>>, notes |-> <<>>,
    ending |-> "none", searched |-> FALSE,
    analyzedBefore |-> FALSE, embedInput |-> <<>>, searchVector |-> <<>>,
    searchIndex |-> <<>>, matches |-> <<>>, prompt |-> <<>>, doc |-> <<>>,
    embedding |-> <<>>, stages |-> <<>> ]

\* a showInformationMessage ("info") or showErrorMessage ("error") call
Note(level, m) == [level |-> level, message |-> m]
Post(type, m, md, r) == [type |-> type, message |-> m, isMarkdown |-> md, rid |-> r]

\* some analyzeCodebase promise has resolved
Analyzed == \E r \in 1..Len(req) : req[r].kind = "analyze" /\ req[r].outcome = "resolved"

Init ==
  /\ workspaceFolders \in WorkspaceChoices
  /\ req = <<>>
  /\ toHost = <<>>
  /\ toView = <<>>
  /\ dom = <<>>

\* ------------------------------------------------------- analyzeCodebase
ExecErrorMessage_Verbatim(stderr) == stderr

\* message of the Error passed to reject on an execution error
ExecErrorMessage(stderr) == IF stderr # <<>> THEN stderr ELSE UnknownErrorMsg

ParseFailureMessage_WithRaw(stdout) == InvalidJsonMsg \o T(": ") \o Trim(stdout)

\* message of the Error passed to reject when JSON.parse throws
ParseFailureMessage(stdout) == InvalidJsonMsg

\* the analyzeCommand handler: start analyzeCodebase, or complain
StartAnalyze(rq) ==
  IF workspaceFolders.defined /\ Len(workspaceFolders.folders) > 0
  THEN [rq EXCEPT !.cpc = "exec", !.outcome = "pending", !.execCalls = @ + 1]
  ELSE [rq EXCEPT !.cpc = "done", !.failedAt = "noFolder",
                  !.notes = Append(@, Note("error", NoFolderMsg))]

\* the .then / .catch the analyzeCommand handler chained on the promise
AnalyzeSettled(rq) ==
  IF rq.outcome = "resolved"
  THEN [rq EXCEPT !.notes = Append(@, Note("info", AnalyzeSuccessMsg))]
  ELSE [rq EXCEPT !.notes = Append(@, Note("error", AnalyzeErrorPrefix \o rq.err.message))]

OnExecCallback_ReturnBeforeProgress(rq, error, stdout, stderr) ==
  LET seen == [rq EXCEPT !.execError = error, !.stdout = stdout, !.stderr = stderr]
  IN IF error
     THEN [seen EXCEPT !.cpc = "done", !.outcome = "rejected", !.failedAt = "exec",
                       !.err = Err(ExecErrorMessage(stderr)),
                       !.settles = @ + 1, !.progressResolves = @ + 1]
     ELSE IF JsonParses(Trim(stdout))
     THEN [seen EXCEPT !.cpc = "done", !.outcome = "resolved",
                       !.settles = @ + 1, !.progressResolves = @ + 1]
     ELSE [seen EXCEPT !.cpc = "done", !.outcome = "rejected", !.failedAt = "parse",
                       !.err = Err(ParseFailureMessage(stdout)),
                       !.settles = @ + 1]

\* the execFile callback (error, stdout, stderr) on the request record
OnExecCallback(rq, error, stdout, stderr) ==
  LET seen == [rq EXCEPT !.execError = error, !.stdout = stdout, !.stderr = stderr]
  IN IF error
     THEN [seen EXCEPT !.cpc = "done", !.outcome = "rejected", !.failedAt = "exec",
                       !.err = Err(ExecErrorMessage(stderr)),
                       !.settles = @ + 1, !.progressResolves = @ + 1]
     ELSE IF JsonParses(Trim(stdout))
     THEN [seen EXCEPT !.cpc = "done", !.outcome = "resolved",
                       !.settles = @ + 1, !.progressResolves = @ + 1]
     ELSE [seen EXCEPT !.cpc = "done", !.outcome = "rejected", !.failedAt = "parse",
                       !.err = Err(ParseFailureMessage(stdout)),
                       !.settles = @ + 1, !.progressResolves = @ + 1]

ExecCallback(r, error, stdout, stderr) ==
  /\ req[r].cpc = "exec"
  /\ req' = [req EXCEPT ![r] = AnalyzeSettled(OnExecCallback(@, error, stdout, stderr))]
  /\ UNCHANGED <<workspaceFolders, toHost, toView, dom>>

\* the user runs "extension.analyzeCodebase" from the command palette
PaletteAnalyze ==
  /\ Len(req) < MaxReq
  /\ req' = Append(req, StartAnalyze(NewReq("palette", "analyze", <<>>)))
  /\ toView' = Append(toView, <<>>)
  /\ dom' = Append(dom, <<>>)
  /\ UNCHANGED <<workspaceFolders, toHost>>

\* ------------------------------------------------------- generateSummary
RECURSIVE Join(_, _)
Join(parts, sep) ==
  IF parts = <<>> THEN <<>>
  ELSE IF Len(parts) = 1 THEN Head(parts)
  ELSE Head(parts) \o sep \o Join(Tail(parts), sep)

\* one entry of contextContent
FormatMatch(m) ==
  << "\nFile: ", m.file_path, "\nType: ", m.type, "\nName: ", m.name,
     "\nContent:\n", m.content, "\n-------------------" >>

ContextContent(matches) ==
  Join([i \in 1..Len(matches) |-> FormatMatch(matches[i])], T("\n\n"))

UserPrompt_NoContext(query, contextContent) ==
  T("Please provide a summary addressing this query: \"") \o query
    \o T("\"\n\nHere are the relevant code elements:\n\n")

\* content of the user message of the chat-completion request
UserPrompt(query, contextContent) ==
  T("Please provide a summary addressing this query: \"") \o query
    \o T("\"\n\nHere are the relevant code elements:\n\n") \o contextContent

\* content of the document opened beside the editor
SummaryDocument(query, summary, contextContent) ==
  T("# Code Summary\n\nQuery: ") \o query \o T("\n\n") \o summary
    \o T("\n\n## Referenced Code Elements\n\n") \o contextContent

\* generateSummary up to its first await: the input box is shown
StartSummary(rq) ==
  [rq EXCEPT !.cpc = "inputBox", !.outcome = "pending", !.analyzedBefore = Analyzed]

\* the catch block of generateSummary: the error ends the request there
Catch(rq, stage, msg) ==
  [rq EXCEPT !.cpc = "done", !.outcome = "resolved", !.ending = "error",
             !.err = Err(msg), !.failedAt = stage,
             !.stages = Append(@, "Failed")]

\* showInputBox resolved with v
OnInputBox(rq, v) ==
  IF ~v.defined \/ v.text = <<>>
  THEN [rq EXCEPT !.cpc = "done", !.outcome = "resolved", !.ending = "cancelled"]
  ELSE [rq EXCEPT !.query = v.text, !.cpc = "embedding",
                  !.embedCalls = @ + 1, !.embedInput = v.text,
                  !.stages = Append(@, "Embedding")]

OnEmbeddingResponse_Retry(rq, resp) ==
  IF resp.kind # "ok"
  THEN IF rq.embedCalls < 2
       THEN [rq EXCEPT !.embedCalls = @ + 1]
       ELSE Catch(rq, "embedding", resp.message)
  ELSE [rq EXCEPT !.cpc = "searching", !.searchCalls = @ + 1,
                  !.searchIndex = CodeEmbeddingsIndex,
                  !.embedding = resp.embedding,
                  !.searchVector = resp.embedding,
                  !.stages = Append(@, "Searching")]

\* the embeddings fetch settled
OnEmbeddingResponse(rq, resp) ==
  IF resp.kind # "ok"
  THEN Catch(rq, "embedding", resp.message)
  ELSE [rq EXCEPT !.cpc = "searching", !.searchCalls = @ + 1,
                  !.searchIndex = CodeEmbeddingsIndex,
                  !.embedding = resp.embedding,
                  !.searchVector = resp.embedding,
                  !.stages = Append(@, "Searching")]

OnSearchResponse_NoEmptyCheck(rq, resp) ==
  IF resp.kind # "ok"
  THEN Catch(rq, "searching", resp.message)
  ELSE LET matches == IF resp.hasMatches THEN resp.matches ELSE <<>>
       IN [rq EXCEPT !.cpc = "completing", !.chatCalls = @ + 1,
                     !.searched = TRUE, !.matches = matches,
                     !.prompt = UserPrompt(rq.query, ContextContent(matches)),
                     !.stages = @ \o <<"AssemblingContext", "Completing">>]

\* index.query settled
OnSearchResponse(rq, resp) ==
  IF resp.kind # "ok"
  THEN Catch(rq, "searching", resp.message)
  ELSE LET matches == IF resp.hasMatches THEN resp.matches ELSE <<>>
       IN IF Len(matches) = 0
          THEN [rq EXCEPT !.cpc = "done", !.outcome = "resolved",
                          !.ending = "noMatches", !.searched = TRUE]
          ELSE [rq EXCEPT !.cpc = "completing", !.chatCalls = @ + 1,
                          !.searched = TRUE, !.matches = matches,
                          !.prompt = UserPrompt(rq.query, ContextContent(matches)),
                          !.stages = @ \o <<"AssemblingContext", "Completing">>]

\* the chat-completions fetch settled
OnChatResponse(rq, resp) ==
  IF resp.kind # "ok"
  THEN Catch(rq, "completing", resp.message)
  ELSE [rq EXCEPT !.cpc = "openingDoc",
                  !.doc = SummaryDocument(rq.query, Trim(resp.content),
                                          ContextContent(rq.matches))]

\* what generateSummary shows the user when a step ends the request
SummaryNotes(rq) ==
  IF rq.ending = "error"
  THEN <<Note("error", SummaryErrorPrefix \o rq.err.message)>>
  ELSE IF rq.ending = "noMatches"
  THEN <<Note("info", NoMatchesMsg)>>
  ELSE <<>>

SummaryStep(r, rq) ==
  /\ req' = [req EXCEPT ![r] = [rq EXCEPT !.notes = @ \o SummaryNotes(rq)]]
  /\ UNCHANGED <<workspaceFolders, toHost, toView, dom>>

InputBoxReturn(r, v) ==
  /\ req[r].cpc = "inputBox"
  /\ SummaryStep(r, OnInputBox(req[r], v))

EmbeddingResponse(r, resp) ==
  /\ req[r].cpc = "embedding"
  /\ SummaryStep(r, OnEmbeddingResponse(req[r], resp))

SearchResponse(r, resp) ==
  /\ req[r].cpc = "searching"
  /\ SummaryStep(r, OnSearchResponse(req[r], resp))

ChatResponse(r, resp) ==
  /\ req[r].cpc = "completing"
  /\ SummaryStep(r, OnChatResponse(req[r], resp))

OpenTextDocument(r) ==
  /\ req[r].cpc = "openingDoc"
  /\ SummaryStep(r, [req[r] EXCEPT !.cpc = "showingDoc"])

ShowTextDocument(r) ==
  /\ req[r].cpc = "showingDoc"
  /\ SummaryStep(r, [req[r] EXCEPT !.cpc = "done", !.outcome = "resolved",
                                   !.ending = "document",
                                   !.stages = Append(@, "Done")])

\* the user runs "extension.generateSummary" from the command palette
PaletteSummarize ==
  /\ Len(req) < MaxReq
  /\ req' = Append(req, StartSummary(NewReq("palette", "summarize", <<>>)))
  /\ toView' = Append(toView, <<>>)
  /\ dom' = Append(dom, <<>>)
  /\ UNCHANGED <<workspaceFolders, toHost>>

\* --------------------------------------------------- webview script (HTML)
DomEntry(cls, mode, m) ==
  [cls |-> cls, mode |-> mode, content |-> m.message, type |-> m.type,
   isMarkdown |-> m.isMarkdown, rid |-> m.rid]

\* addMessage(content, true)
UserEntry(text, r) == DomEntry("user", "text", Post("user", text, "absent", r))

ToHost(type, q, r) == [type |-> type, query |-> q, rid |-> r]

\* the number of requests issued from the chat view so far
ViewReqs == Cardinality({r \in 1..Len(req) : req[r].origin = "view"})

CanClick == Len(req) < MaxReq /\ ViewReqs < MaxViewReq

ClickAnalyze ==
  /\ CanClick
  /\ req' = Append(req, NewReq("view", "analyze", <<>>))
  /\ toHost' = Append(toHost, ToHost("analyze", <<>>, Len(req) + 1))
  /\ toView' = Append(toView, <<>>)
  /\ dom' = Append(dom, <<>>)
  /\ UNCHANGED workspaceFolders

ClickSummarize ==
  /\ CanClick
  /\ req' = Append(req, NewReq("view", "summarize", <<>>))
  /\ dom' = Append(dom, <<UserEntry(SummarizeUserText, Len(req) + 1)>>)
  /\ toHost' = Append(toHost, ToHost("summarize", <<>>, Len(req) + 1))
  /\ toView' = Append(toView, <<>>)
  /\ UNCHANGED workspaceFolders

\* sendBtn click with v typed in #queryInput
ClickSend(v) ==
  /\ CanClick
  /\ LET query == Trim(v)
     IN IF query # <<>>
        THEN /\ req' = Append(req, NewReq("view", "query", query))
             /\ dom' = Append(dom, <<UserEntry(query, Len(req) + 1)>>)
             /\ toHost' = Append(toHost, ToHost("query", query, Len(req) + 1))
             /\ toView' = Append(toView, <<>>)
        ELSE UNCHANGED <<req, dom, toHost, toView>>
  /\ UNCHANGED workspaceFolders

\* the window 'message' listener on one inbound message
Render(m) ==
  IF m.type = "response" THEN DomEntry("assistant", "html", m)
  ELSE IF m.type = "error" THEN DomEntry("error", "text", m)
  ELSE DomEntry("status", "text", m)

WebviewOnMessage(r) ==
  /\ toView[r] # <<>>
  /\ dom' = [dom EXCEPT ![r] = Append(@, Render(Head(toView[r])))]
  /\ toView' = [toView EXCEPT ![r] = Tail(@)]
  /\ UNCHANGED <<workspaceFolders, req, toHost>>

\* ------------------------------------- CodeChatView.onDidReceiveMessage
\* marked(markdown): the text comes back wrapped in a paragraph element
Marked(md) == T("<p>") \o md \o T("</p>\n")

\* what executeCommand settles with: both registered handlers return nothing
CommandResult(kind, ask) ==
  IF kind = "query" THEN ask
  ELSE [kind |-> "resolved", value |-> Undefined, message |-> <<>>]

\* the message posted once the awaited executeCommand has settled
ViewAnswer(kind, result, r) ==
  IF result.kind = "rejected"
  THEN Post("error", result.message, "absent", r)
  ELSE IF kind = "analyze"
  THEN Post("response",
            IF result.value.defined /\ result.value.text # <<>>
              THEN result.value.text ELSE AnalyzeSuccessMsg,
            "false", r)
  ELSE IF ~result.value.defined \/ result.value.text = <<>>
  THEN Post("error", IF kind = "summarize" THEN NoSummaryMsg ELSE NoResponseMsg,
            "absent", r)
  ELSE Post("response", Marked(result.value.text), "true", r)

HostReceiveAnalyze ==
  /\ toHost # <<>> /\ Head(toHost).type = "analyze"
  /\ LET r == Head(toHost).rid
     IN /\ toView' = [toView EXCEPT ![r] = Append(@, Post("status", AnalyzingStatus, "absent", r))]
        /\ IF workspaceFolders.defined
           THEN req' = [req EXCEPT ![r] = [StartAnalyze(@) EXCEPT !.vpc = "await"]]
           ELSE req' = [req EXCEPT ![r].vpc = "done"]
  /\ toHost' = Tail(toHost)
  /\ UNCHANGED <<workspaceFolders, dom>>

HostReceiveSummarize ==
  /\ toHost # <<>> /\ Head(toHost).type = "summarize"
  /\ LET r == Head(toHost).rid
     IN /\ toView' = [toView EXCEPT ![r] = Append(@, Post("status", SummaryStatus, "absent", r))]
        /\ req' = [req EXCEPT ![r] = [StartSummary(@) EXCEPT !.vpc = "await"]]
  /\ toHost' = Tail(toHost)
  /\ UNCHANGED <<workspaceFolders, dom>>

HostReceiveQuery ==
  /\ toHost # <<>> /\ Head(toHost).type = "query"
  /\ LET r == Head(toHost).rid
     IN /\ toView' = [toView EXCEPT ![r] = Append(@, Post("status", QueryStatus, "absent", r))]
        /\ req' = [req EXCEPT ![r].vpc = "await"]
  /\ toHost' = Tail(toHost)
  /\ UNCHANGED <<workspaceFolders, dom>>

\* the handler resumes after `await executeCommand(...)`
ViewResume(r, ask) ==
  /\ req[r].vpc = "await"
  /\ toView' = [toView EXCEPT ![r] =
                  Append(@, ViewAnswer(req[r].kind, CommandResult(req[r].kind, ask), r))]
  /\ req' = [req EXCEPT ![r].vpc = "done"]
  /\ UNCHANGED <<workspaceFolders, toHost, dom>>

\* ------------------------------------------------------------ specification
Next ==
  \/ PaletteAnalyze
  \/ PaletteSummarize
  \/ ClickAnalyze
  \/ ClickSummarize
  \/ \E v \in QueryInputValues : ClickSend(v)
  \/ HostReceiveAnalyze
  \/ HostReceiveSummarize
  \/ HostReceiveQuery
  \/ \E r \in 1..Len(req), ask \in AskOutcomes : ViewResume(r, ask)
  \/ \E r \in 1..Len(req), o \in ExecOutcomes :
       ExecCallback(r, o.error, o.stdout, o.stderr)
  \/ \E r \in 1..Len(req), v \in InputBoxValues : InputBoxReturn(r, v)
  \/ \E r \in 1..Len(req), resp \in EmbeddingResponses : EmbeddingResponse(r, resp)
  \/ \E r \in 1..Len(req), resp \in SearchResponses : SearchResponse(r, resp)
  \/ \E r \in 1..Len(req), resp \in ChatResponses : ChatResponse(r, resp)
  \/ \E r \in 1..Len(req) : OpenTextDocument(r)
  \/ \E r \in 1..Len(req) : ShowTextDocument(r)
  \/ \E r \in 1..Len(req) : WebviewOnMessage(r)

Spec == Init /\ [][Next]_vars

\* analyzeCodebase alone, over every output the subprocess can produce
AnalyzerNext ==
  \/ Len(req) < MaxRuns /\ PaletteAnalyze
  \/ \E r \in 1..Len(req), error \in BOOLEAN, stdout \in Stdouts, stderr \in Stderrs :
       ExecCallback(r, error, stdout, stderr)

AnalyzerSpec == Init /\ [][AnalyzerNext]_vars

\* ================================================================== claims
Reqs == 1..Len(req)

\* the messages posted to the webview for request r, in posting order
Posted(r) ==
  LET shown == SelectSeq(dom[r], LAMBDA e : e.cls # "user")
  IN [i \in 1..Len(shown) |->
        Post(shown[i].type, shown[i].content, shown[i].isMarkdown, r)] \o toView[r]

Terminals(r) == SelectSeq(Posted(r), LAMBDA m : m.type \in {"response", "error"})

HasNote(r, level, m) == \E i \in 1..Len(req[r].notes) : req[r].notes[i] = Note(level, m)

\* index_id = "code-index-" + first_8_hex(hash(workspace_path)); the hash is a
\* fixed stand-in, only the shape of the identifier matters below
Hash8(w) == [i \in 1..8 |-> IF (Len(w) + i) % 2 = 0 THEN "a" ELSE "7"]
derive_index_id(w) == T("code-index-") \o Hash8(w)

\* --- C1 -------------------------------------------------------------------
\* C1: a summarize request issued while no analysis has succeeded makes no
\* embedding, vector-search or completion call, and once the user's query is
\* in it ends as a failure.
C1_NotAnalyzedFailsFast ==
  \A r \in Reqs :
    (req[r].kind = "summarize" /\ req[r].cpc # "none" /\ ~req[r].analyzedBefore) =>
      /\ req[r].embedCalls = 0 /\ req[r].searchCalls = 0 /\ req[r].chatCalls = 0
      /\ (req[r].query # <<>> => req[r].cpc = "done" /\ req[r].ending = "error")

\* --- C2 -------------------------------------------------------------------
\* the vector search of request r returned an empty match list
EmptySearch(r) ==
  req[r].kind = "summarize" /\ req[r].searched /\ req[r].matches = <<>>

C3_ErrorPropagates ==
  \A r \in Reqs :
    (req[r].kind = "summarize" /\ req[r].failedAt \in {"embedding", "completing"}) =>
      /\ req[r].outcome = "rejected"
      /\ (req[r].vpc = "done" =>
            \E i \in 1..Len(Posted(r)) :
              /\ Posted(r)[i].type = "error"
              /\ Posted(r)[i].message = req[r].err.message)

\* --- C4 -------------------------------------------------------------------
\* C4: once the view's handler has finished with a request, exactly one
\* terminal message ('response' or 'error') has been posted for it, after its
\* 'status' message, and it is 'response' when the pipeline succeeded.
C4_ExactlyOneTerminal ==
  \A r \in Reqs :
    (req[r].origin = "view" /\ req[r].vpc = "done") =>
      /\ Len(Terminals(r)) = 1
      /\ Len(Posted(r)) = 2 /\ Posted(r)[1].type = "status"
      /\ (req[r].ending = "document" => Posted(r)[2].type = "response")

\* --- C5 -------------------------------------------------------------------
\* C5: success of an analyze request is reported (a 'response' to the view or
\* the success notification) only once the subprocess has exited with code 0
\* and its output has parsed; a failed analysis gets no success response.
C5_SuccessOnlyAfterExit0 ==
  \A r \in Reqs :
    req[r].kind = "analyze" =>
      /\ ((\E i \in 1..Len(Posted(r)) : Posted(r)[i].type = "response")
            \/ HasNote(r, "info", AnalyzeSuccessMsg))
           => (req[r].outcome = "resolved" /\ ~req[r].execError
                 /\ JsonParses(Trim(req[r].stdout)))
      /\ req[r].outcome = "rejected"
           => \A i \in 1..Len(Posted(r)) : Posted(r)[i].type # "response"

\* --- C6 -------------------------------------------------------------------
\* the execFile callback of request r has fired with an execution error
ExecFailed(r) ==
  req[r].kind = "analyze" /\ req[r].execCalls = 1 /\ req[r].cpc = "done"
    /\ req[r].execError

\* C6 as stated: on a non-zero exit analyzeCodebase rejects and the message is
\* the standard-error text verbatim, the empty string included.
C6_Original ==
  \A r \in Reqs :
    ExecFailed(r) => req[r].outcome = "rejected" /\ req[r].err.message = req[r].stderr

\* C6 as amended: on a non-zero exit analyzeCodebase rejects; the message is
\* the standard-error text verbatim when that text is not empty, and
\* "Unknown error occurred." when it is empty.
C6_StderrOrUnknown ==
  \A r \in Reqs :
    ExecFailed(r) =>
      /\ req[r].outcome = "rejected"
      /\ req[r].stderr # <<>> => req[r].err.message = req[r].stderr
      /\ req[r].stderr = <<>> => req[r].err.message = UnknownErrorMsg

C6_Witness == \E r \in Reqs : ExecFailed(r) /\ req[r].stderr = <<>>

\* --- C7 -------------------------------------------------------------------
\* the subprocess of request r exited with code 0 and unparsable output
ParseFailed(r) ==
  req[r].kind = "analyze" /\ req[r].execCalls = 1 /\ req[r].cpc = "done"
    /\ ~req[r].execError /\ ~JsonParses(Trim(req[r].stdout))

\* C7 as stated: unparsable output on exit 0 rejects with a message that
\* includes the raw output, and no execution failure carries the same error.
C7_Original ==
  \A r \in Reqs :
    /\ ParseFailed(r) =>
         req[r].outcome = "rejected" /\ Contains(req[r].err.message, req[r].stdout)
    /\ ExecFailed(r) => req[r].err # Err(ParseFailureMessage(req[r].stdout))

\* C7 as amended: unparsable output on exit 0 rejects with the fixed message
\* "Invalid JSON output from analyzer.py", whatever the output was; an
\* execution failure carries a different message unless the subprocess's
\* standard-error text is that very sentence.
C7_FixedParseMessage ==
  \A r \in Reqs :
    /\ ParseFailed(r) =>
         /\ req[r].outcome = "rejected"
         /\ req[r].failedAt = "parse"
         /\ req[r].err.message = InvalidJsonMsg
    /\ (ExecFailed(r) /\ req[r].stderr # InvalidJsonMsg) =>
         req[r].err.message # InvalidJsonMsg

C7_Witness == \E r \in Reqs : ParseFailed(r) /\ req[r].stdout # <<>>

\* --- C8 -------------------------------------------------------------------
\* C8: after a successful analyze of the open workspace w, every vector
\* search of a summarize request queries the index derive_index_id(w).
C8_SearchUsesDerivedIndex ==
  \A r \in Reqs :
    (req[r].kind = "summarize" /\ req[r].analyzedBefore /\ req[r].searchCalls > 0
       /\ Len(workspaceFolders.folders) > 0) =>
      req[r].searchIndex = derive_index_id(workspaceFolders.folders[1])

\* --- C9 -------------------------------------------------------------------
\* the stages after the one named, by their call counters
LaterCalls(rq, stage) ==
  IF stage = "embedding" THEN rq.searchCalls + rq.chatCalls
  ELSE IF stage = "searching" THEN rq.chatCalls
  ELSE 0

\* C9: within one request each external call is issued at most once; once one
\* of them has failed the request is over, no later call has been made for
\* it, and the failure has been shown to the user in an error notification.
C9_NoRetry ==
  \A r \in Reqs :
    /\ req[r].execCalls <= 1 /\ req[r].embedCalls <= 1
    /\ req[r].searchCalls <= 1 /\ req[r].chatCalls <= 1
    /\ req[r].failedAt \in {"exec", "parse"} =>
         /\ req[r].cpc = "done"
         /\ req[r].embedCalls + req[r].searchCalls + req[r].chatCalls = 0
         /\ HasNote(r, "error", AnalyzeErrorPrefix \o req[r].err.message)
    /\ req[r].failedAt \in {"embedding", "searching", "completing"} =>
         /\ req[r].cpc = "done"
         /\ LaterCalls(req[r], req[r].failedAt) = 0
         /\ HasNote(r, "error", SummaryErrorPrefix \o req[r].err.message)

C9_Witness ==
  \E r \in Reqs :
    /\ req[r].failedAt = "embedding" /\ req[r].embedCalls = 1
    /\ req[r].cpc = "done"

\* --- C10 ------------------------------------------------------------------
\* C10: an entry of #messages is inserted as HTML only for a 'response'
\* message whose isMarkdown flag is true; every other message is plain text.
C10_HtmlOnlyWhenMarkdown ==
  \A r \in Reqs :
    \A i \in 1..Len(dom[r]) :
      dom[r][i].mode = "html" <=>
        (dom[r][i].type = "response" /\ dom[r][i].isMarkdown = "true")

\* --- C11 ------------------------------------------------------------------
\* request r has shown its summary document
SummaryDone(r) == req[r].kind = "summarize" /\ req[r].ending = "document"

\* the data handed from stage to stage in a request that reached Completing
DataFlows(rq) ==
  /\ rq.embedInput = rq.query
  /\ rq.searchVector = rq.embedding /\ rq.embedding # <<>>
  /\ rq.matches # <<>>
  /\ Contains(rq.prompt, ContextContent(rq.matches))

InFlight == {r \in Reqs : req[r].kind = "analyze" /\ req[r].cpc = "exec"}

\* C12: at most one analyzer subprocess is in flight at any time (one
\* workspace is open, so every analysis is of that workspace).
C12_OneAnalysisInFlight == Cardinality(InFlight) <= 1

\* --- C13 ------------------------------------------------------------------
\* the execFile callback of request r has fired
CallbackFired(r) ==
  req[r].kind = "analyze" /\ req[r].execCalls = 1 /\ req[r].cpc = "done"

\* C13: once the subprocess callback has fired, on each of its paths the
\* promise of analyzeCodebase has been settled exactly once, as resolved on
\* success and as rejected otherwise, and the progress promise has been
\* resolved exactly once; before the callback neither has happened.
C13_SettledOnce ==
  \A r \in Reqs :
    /\ CallbackFired(r) =>
         /\ req[r].settles = 1
         /\ req[r].progressResolves = 1
         /\ req[r].outcome \in {"resolved", "rejected"}
         /\ req[r].outcome = "resolved" <=>
              (~req[r].execError /\ JsonParses(Trim(req[r].stdout)))
    /\ (req[r].kind = "analyze" /\ req[r].cpc = "exec") =>
         /\ req[r].settles = 0 /\ req[r].progressResolves = 0
         /\ req[r].outcome = "pending"

C13_Witness ==
  \E r \in Reqs : CallbackFired(r) /\ req[r].failedAt = "parse"
                    /\ req[r].progressResolves = 1

====
